---------------------------- MODULE Spec2Model ----------------------------
(***************************************************************************)
(* Model of the kanban backend's use-case layer (task CRUD with ownership  *)
(* checks, identity provisioning), its two entities and its Firestore      *)
(* repositories.  Every use-case invocation runs in a request slot         *)
(* (Procs) and suspends at each awaited repository / identity-provider     *)
(* call; one action is one resumption up to the next await.                *)
(***************************************************************************)
EXTENDS Integers, Sequences, FiniteSets, TLC

(* ------------------------------ bounds -------------------------------- *)
\* longest title handed to a use case
MaxLen == 2
\* longest description handed to a use case
MaxDescLen == 1
\* number of task documents the tasks collection ever receives
MaxTasks == 2
\* number of task documents it receives while requests run concurrently
MaxRaceTasks == 1
\* number of user documents the users collection ever receives
MaxUsers == 2

\* request slots that can be in flight at the same time
Procs == {"p1", "p2"}

(* ------------------------------ strings ------------------------------- *)
\* a string is a sequence of characters; " " is whitespace, "a" is not
Chars == {" ", "a"}

Str(n) == UNION {[1..k -> Chars] : k \in 0..n}

EmptyStr == <<>>

IsSpace(c) == c = " "

RECURSIVE TrimStart(_)
TrimStart(s) ==
    IF s # <<>> /\ IsSpace(Head(s)) THEN TrimStart(Tail(s)) ELSE s

RECURSIVE TrimEnd(_)
TrimEnd(s) ==
    IF s # <<>> /\ IsSpace(s[Len(s)]) THEN TrimEnd(SubSeq(s, 1, Len(s) - 1)) ELSE s

\* String.prototype.trim
Trim(s) == TrimEnd(TrimStart(s))

\* optional values: <<>> is undefined / null, <<x>> is x
None == <<>>
Some(x) == <<x>>
Opt(S) == {None} \cup {Some(x) : x \in S}
\* a ?? b
OrElse(o, d) == IF o = None THEN d ELSE o[1]

(* ------------------------------ inputs -------------------------------- *)
\* e-mail addresses: two addresses, a second spelling of the first, and a
\* string that is no address
EmailA == <<"a", "@", "x">>
EmailMixedA == <<"A", "@", "x">>
EmailB == <<"b", "@", "x">>
EmailBad == <<"a", "x">>

\* requests served one at a time carry every string up to the bounds, and
\* the slot keeps the request's optional fields for inspection
AllInputs ==
    [titles |-> Str(MaxLen), descriptions |-> Str(MaxDescLen),
     tasks |-> MaxTasks, record |-> TRUE,
     emails |-> {EmailA, EmailMixedA, EmailB, EmailBad}, users |-> MaxUsers,
     serial |-> TRUE]
\* concurrent requests carry a plain or a blank title and one of two
\* descriptions; the slot keeps what the code keeps across its awaits
FewInputs ==
    [titles |-> {<<"a">>, <<" ">>}, descriptions |-> {<<>>, <<"a">>},
     tasks |-> MaxRaceTasks, record |-> FALSE,
     emails |-> {EmailA, EmailB}, users |-> MaxUsers,
     serial |-> FALSE]
\* the empty id "" is 0; ids the store assigns are 1, 2, ...
EmptyId == 0
\* ids callers present: the two provisioned users and one id with no User
CallerIds == {1, 2, 3}
TaskIdInputs == 1..MaxTasks
\* an absent or unusable createdAt field
NoDate == 0

(* --------------------------- error messages --------------------------- *)
NoError == ""
ErrTaskNotFound == "Tarea no encontrada."
ErrUnauthorized == "Accion no autorizada."
ErrTitle == "El titulo es requerido y no puede estar vacio."
ErrUserId == "El userId es requerido."
ErrNoUserForTask == "No se puede crear una tarea para un usuario que no existe."
ErrUserNotFound == "Usuario no encontrado."
ErrEmail == "Formato de email invalido"
\* the ZodError of descriptionSchema.parse(undefined)
ErrDescription == "Invalid input: expected string, received undefined"
\* Firestore's DocumentReference.update on a document that does not exist
ErrStoreNotFound == "5 NOT_FOUND: No document to update"
\* any identity-provider failure other than auth/user-not-found
ErrAuth == "auth/internal-error"
\* the code of the provider's answer when no account has the address
ErrAuthNotFound == "auth/user-not-found"
ErrAuthExists == "auth/uid-or-email-already-exists"

(* ----------------------------- Task entity ---------------------------- *)
NoTask ==
    [id |-> EmptyId, title |-> EmptyStr, description |-> EmptyStr,
     completed |-> FALSE, createdAt |-> NoDate, userId |-> EmptyId]

\* a variant of the title schema without .trim()
Task_titleSchema_noTrim(title) ==
    [success |-> Len(title) >= 1, data |-> title]

\* z.string().min(1, ...).trim(): the checks run in the order written, the
\* length check on the string as given, the trim after it
Task_titleSchema(title) ==
    [success |-> Len(title) >= 1, data |-> Trim(title)]

\* z.string().trim(), applied with parse: it throws when handed undefined
Task_descriptionSchema(description) ==
    [success |-> description # None,
     data |-> IF description = None THEN EmptyStr ELSE Trim(description[1])]

\* z.string().min(1, ...)
Task_userIdSchema(userId) == [success |-> userId # EmptyId]

\* new Task(id, title, description, completed, createdAt, userId); the
\* description is an optional value, since callers can hand in undefined
Task_new(id, title, description, completed, createdAt, userId) ==
    LET titleValidation == Task_titleSchema(title)
        userIdValidation == Task_userIdSchema(userId)
        descriptionValidation == Task_descriptionSchema(description)
    IN  IF ~titleValidation.success
        THEN [ok |-> FALSE, error |-> ErrTitle, task |-> NoTask]
        ELSE IF ~userIdValidation.success
        THEN [ok |-> FALSE, error |-> ErrUserId, task |-> NoTask]
        ELSE IF ~descriptionValidation.success
        THEN [ok |-> FALSE, error |-> ErrDescription, task |-> NoTask]
        ELSE [ok |-> TRUE, error |-> NoError,
              task |-> [id |-> id,
                        title |-> titleValidation.data,
                        description |-> descriptionValidation.data,
                        completed |-> completed,
                        createdAt |-> createdAt,
                        userId |-> userId]]

\* Task.fromObject({id, ...data}): None when it throws
Task_fromObject(obj) ==
    IF obj.id = EmptyId \/ obj.title = EmptyStr \/ obj.userId = EmptyId
       \/ obj.createdAt = NoDate
    THEN None
    ELSE LET c == Task_new(obj.id, obj.title, Some(obj.description),
                           obj.completed, obj.createdAt, obj.userId)
         IN  IF c.ok THEN Some(c.task) ELSE None

(* ----------------------------- User entity ---------------------------- *)
\* characters of e-mail addresses; "A" and "B" are the upper-case letters
Lower(c) == IF c = "A" THEN "a" ELSE IF c = "B" THEN "b" ELSE c

\* String.prototype.toLowerCase
ToLowerCase(s) == [i \in 1..Len(s) |-> Lower(s[i])]

\* z.email(): one "@" with a non-empty local part and a non-empty domain
User_emailSchema(email) ==
    [success |-> /\ Len(email) >= 3
                 /\ Cardinality({i \in 1..Len(email) : email[i] = "@"}) = 1
                 /\ email[1] # "@"
                 /\ email[Len(email)] # "@"]

NoUser == [id |-> EmptyId, email |-> EmptyStr, createdAt |-> NoDate]

\* new User(id, email, createdAt)
User_new(id, email, createdAt) ==
    IF ~User_emailSchema(email).success
    THEN [ok |-> FALSE, error |-> ErrEmail, user |-> NoUser]
    ELSE [ok |-> TRUE, error |-> NoError,
          user |-> [id |-> id, email |-> ToLowerCase(email), createdAt |-> createdAt]]

\* User.fromObject({id, ...data}): None when it throws
User_fromObject(obj) ==
    IF obj.id = EmptyId \/ obj.email = EmptyStr \/ obj.createdAt = NoDate
    THEN None
    ELSE LET c == User_new(obj.id, obj.email, obj.createdAt)
         IN  IF c.ok THEN Some(c.user) ELSE None

(* ------------------------------- state -------------------------------- *)
VARIABLES
    users,        \* Firestore collection "users": id -> [email, createdAt]
    accounts,     \* identity-provider accounts: uid -> email
    tasks,        \* Firestore collection "tasks": id -> document data
    nextUserId,   \* next auto-generated id of the users collection
    nextTaskId,   \* next auto-generated id of the tasks collection
    clock,        \* what new Date() returns; it advances with every
                  \* timestamp that reaches an entity
    inv           \* per request slot: the use-case invocation in flight

vars == <<users, accounts, tasks, nextUserId, nextTaskId, clock, inv>>

(* ------------------------ FSTaskRepository ---------------------------- *)
Doc(store, id) == [id |-> id] @@ store[id]

\* findById: null when the document is absent or cannot be reconstructed
FSTaskRepository_findById(store, id) ==
    IF id \notin DOMAIN store THEN None ELSE Task_fromObject(Doc(store, id))

\* a variant that adds the document without its owner
FSTaskRepository_taskObject_noOwner(task) ==
    [title |-> task.title, description |-> task.description,
     completed |-> task.completed, createdAt |-> task.createdAt,
     userId |-> EmptyId]

\* the document create() adds
FSTaskRepository_taskObject(task) ==
    [title |-> task.title, description |-> task.description,
     completed |-> task.completed, createdAt |-> task.createdAt,
     userId |-> task.userId]

\* a variant that leaves completed out of the fields it writes
FSTaskRepository_updateData_noCompleted(task) ==
    [title |-> task.title, description |-> task.description]

\* the fields update() writes
FSTaskRepository_updateData(task) ==
    [title |-> task.title, description |-> task.description,
     completed |-> task.completed]

\* a variant that writes with docRef.set(updateData): the other fields are lost
FSTaskRepository_update_set(store, task) ==
    LET updateData == FSTaskRepository_updateData(task)
    IN  [store EXCEPT ![task.id] =
            [f \in DOMAIN store[task.id] |->
                IF f \in DOMAIN updateData THEN updateData[f]
                ELSE Doc(<<NoTask>>, 1)[f]]]

\* docRef.update(updateData): the named fields replaced, the others kept
FSTaskRepository_update(store, task) ==
    LET updateData == FSTaskRepository_updateData(task)
    IN  [store EXCEPT ![task.id] =
            [f \in DOMAIN store[task.id] |->
                IF f \in DOMAIN updateData THEN updateData[f] ELSE store[task.id][f]]]

\* a variant that writes the task with docRef.set(), which creates the
\* document when it is absent
docRef_update_upsert(store, task) ==
    [ok |-> TRUE,
     store |-> IF task.id \in DOMAIN store THEN FSTaskRepository_update(store, task)
               ELSE (task.id :> FSTaskRepository_taskObject(task)) @@ store]

\* await docRef.update(updateData): rejects when the document does not exist
docRef_update(store, task) ==
    IF task.id \notin DOMAIN store THEN [ok |-> FALSE, store |-> store]
    ELSE [ok |-> TRUE, store |-> FSTaskRepository_update(store, task)]

\* collection.doc(id).delete(): no error when the document is absent
FSTaskRepository_delete(store, id) ==
    [i \in DOMAIN store \ {id} |-> store[i]]

(* ------------------------- invocation records ------------------------- *)
Idle ==
    [pc |-> "idle", op |-> "none", userId |-> EmptyId, taskId |-> EmptyId,
     title |-> None, description |-> None, completed |-> None,
     entity |-> None, list |-> <<>>, error |-> NoError, writes |-> 0,
     email |-> EmptyStr, fsUser |-> None, created |-> FALSE,
     authUserUid |-> EmptyId, customToken |-> None,
     hadUser |-> FALSE, hadAccount |-> FALSE,
     userCreates |-> 0, authCreates |-> 0, tokens |-> 0,
     exists |-> FALSE, lookup |-> NoError,
     route |-> "none", authorization |-> None, claimed |-> None, status |-> 0]

Failed(r, e) == [r EXCEPT !.pc = "done", !.error = e]

\* slot p takes a request: when requests are served one at a time, only
\* while no other request is in flight
Accepts(p, in) ==
    /\ inv[p].pc = "idle"
    /\ in.serial => \A q \in Procs \ {p} : inv[q].pc = "idle"

(* -------------------------- UpdateTaskUseCase ------------------------- *)
\* a variant without the ownership guard
UpdateTaskUseCase_guard_noOwnerCheck(existingTask, userId) ==
    IF existingTask = None THEN ErrTaskNotFound ELSE NoError

\* the two guards of execute, in the order written
UpdateTaskUseCase_guard(existingTask, userId) ==
    IF existingTask = None THEN ErrTaskNotFound
    ELSE IF existingTask[1].userId # userId THEN ErrUnauthorized
    ELSE NoError

\* a || b on strings and booleans: "" and false fall through to b
OrElseFalsy(o, d, falsy) == IF Len(o) = 0 THEN d ELSE IF o[1] = falsy THEN d ELSE o[1]

\* a variant that merges with || instead of ??
UpdateTaskUseCase_entity_falsy(existingTask, title, description, completed) ==
    Task_new(existingTask.id,
             OrElseFalsy(title, existingTask.title, EmptyStr),
             Some(OrElseFalsy(description, existingTask.description, EmptyStr)),
             OrElseFalsy(completed, existingTask.completed, FALSE),
             existingTask.createdAt,
             existingTask.userId)

\* new Task(existingTask.id, input.title ?? existingTask.title, ...)
UpdateTaskUseCase_entity(existingTask, title, description, completed) ==
    Task_new(existingTask.id,
             OrElse(title, existingTask.title),
             Some(OrElse(description, existingTask.description)),
             OrElse(completed, existingTask.completed),
             existingTask.createdAt,
             existingTask.userId)

\* execute(input) up to the await of taskRepository.update, for the request
\* held in req
UpdateTaskUseCase_execute(p, in, req, taskId, userId, title, description, completed) ==
    LET existingTask == FSTaskRepository_findById(tasks, taskId)
        guard == UpdateTaskUseCase_guard(existingTask, userId)
        r == [req EXCEPT !.op = "update", !.userId = userId,
                         !.taskId = taskId,
                         !.title = IF in.record THEN title ELSE None,
                         !.description = IF in.record THEN description ELSE None,
                         !.completed = IF in.record THEN completed ELSE None]
    IN  IF guard # NoError
        THEN inv' = [inv EXCEPT ![p] = Failed(r, guard)]
        ELSE LET c == UpdateTaskUseCase_entity(existingTask[1], title,
                                               description, completed)
             IN  IF ~c.ok
                 THEN inv' = [inv EXCEPT ![p] = Failed(r, c.error)]
                 ELSE inv' = [inv EXCEPT ![p] =
                                [r EXCEPT !.pc = "update", !.entity = Some(c.task)]]

\* an Update-Task invocation arrives
UpdateTask_findById(p, in) ==
    /\ Accepts(p, in)
    /\ \E taskId \in TaskIdInputs, userId \in CallerIds,
          title \in Opt(in.titles), description \in Opt(in.descriptions),
          completed \in Opt(BOOLEAN) :
        UpdateTaskUseCase_execute(p, in, Idle, taskId, userId, title,
                                  description, completed)
    /\ UNCHANGED <<users, accounts, tasks, nextUserId, nextTaskId, clock>>

\* a variant that calls taskRepository.update again when it rejects
UpdateTask_update_retry(p) ==
    /\ inv[p].pc = "update"
    /\ LET task == inv[p].entity[1]
           written == docRef_update(tasks, task)
       IN  /\ tasks' = written.store
           /\ IF ~written.ok
              THEN inv' = [inv EXCEPT ![p] = [@ EXCEPT !.writes = @ + 1]]
              ELSE inv' = [inv EXCEPT ![p] =
                            [@ EXCEPT !.pc = "done", !.writes = @ + 1]]
    /\ UNCHANGED <<users, accounts, nextUserId, nextTaskId, clock>>

\* taskRepository.update(updatedTaskEntity) and the return
UpdateTask_update(p) ==
    /\ inv[p].pc = "update"
    /\ LET task == inv[p].entity[1]
           written == docRef_update(tasks, task)
       IN  /\ tasks' = written.store
           /\ IF ~written.ok
              THEN inv' = [inv EXCEPT ![p] =
                            Failed([@ EXCEPT !.writes = @ + 1], ErrStoreNotFound)]
              ELSE inv' = [inv EXCEPT ![p] =
                            [@ EXCEPT !.pc = "done", !.writes = @ + 1]]
    /\ UNCHANGED <<users, accounts, nextUserId, nextTaskId, clock>>

(* -------------------------- DeleteTaskUseCase ------------------------- *)
\* a variant that compares owners first (existingTask?.userId !== userId)
DeleteTaskUseCase_guard_ownerFirst(existingTask, userId) ==
    IF existingTask = None \/ existingTask[1].userId # userId THEN ErrUnauthorized
    ELSE NoError

\* the two guards of execute, in the order written
DeleteTaskUseCase_guard(existingTask, userId) ==
    IF existingTask = None THEN ErrTaskNotFound
    ELSE IF existingTask[1].userId # userId THEN ErrUnauthorized
    ELSE NoError

\* execute(input) up to the await of taskRepository.delete, for the request
\* held in req
DeleteTaskUseCase_execute(p, req, taskId, userId) ==
    LET existingTask == FSTaskRepository_findById(tasks, taskId)
        guard == DeleteTaskUseCase_guard(existingTask, userId)
        r == [req EXCEPT !.op = "delete", !.userId = userId,
                         !.taskId = taskId]
    IN  IF guard # NoError
        THEN inv' = [inv EXCEPT ![p] = Failed(r, guard)]
        ELSE inv' = [inv EXCEPT ![p] = [r EXCEPT !.pc = "delete"]]

\* a Delete-Task invocation arrives
DeleteTask_findById(p, in) ==
    /\ Accepts(p, in)
    /\ \E taskId \in TaskIdInputs, userId \in CallerIds :
        DeleteTaskUseCase_execute(p, Idle, taskId, userId)
    /\ UNCHANGED <<users, accounts, tasks, nextUserId, nextTaskId, clock>>

\* taskRepository.delete(input.taskId) and the return
DeleteTask_delete(p) ==
    /\ inv[p].pc = "delete"
    /\ tasks' = FSTaskRepository_delete(tasks, inv[p].taskId)
    /\ inv' = [inv EXCEPT ![p] = [@ EXCEPT !.pc = "done", !.writes = @ + 1]]
    /\ UNCHANGED <<users, accounts, nextUserId, nextTaskId, clock>>

(* ------------------------- FSUserRepository --------------------------- *)
\* a variant that answers every id with a User (no lookup of the document)
FSUserRepository_findById_anyUser(store, id) ==
    Some([id |-> id, email |-> EmailA, createdAt |-> 1])

\* findById: null when the document is absent or cannot be reconstructed
FSUserRepository_findById(store, id) ==
    IF id \notin DOMAIN store THEN None ELSE User_fromObject(Doc(store, id))

\* the document create() adds
FSUserRepository_userObject(user) ==
    [email |-> user.email, createdAt |-> user.createdAt]

\* where("email", "==", email)
UsersWithEmail(store, email) == {i \in DOMAIN store : store[i].email = email}

\* findByEmail: what limit(1) can return.  The query yields its first match
\* in document-id order, and auto-generated ids are random, so any match can
\* be the one returned; null when there is none or it cannot be reconstructed
FSUserRepository_findByEmail(store, email) ==
    IF UsersWithEmail(store, email) = {}
    THEN {None}
    ELSE {User_fromObject(Doc(store, i)) : i \in UsersWithEmail(store, email)}

(* ---------------------- identity provider (auth) ---------------------- *)
\* the provider keeps addresses in lower case and looks them up so
AccountsWithEmail(accts, email) ==
    {u \in DOMAIN accts : accts[u] = ToLowerCase(email)}

(* ---------------------- CreateOrFindUserUseCase ----------------------- *)
\* sign-ins that found no User and await userRepository.create
PendingUserCreates == Cardinality({q \in Procs : inv[q].pc = "createUser"})

\* execute up to the await of userRepository.create or auth.getUserByEmail
CreateOrFindUser_findByEmail(p, in) ==
    /\ Accepts(p, in)
    /\ \E email \in in.emails :
       \E fsUser \in FSUserRepository_findByEmail(users, email) :
        LET r == [Idle EXCEPT !.op = "signin", !.email = email,
                     !.hadUser = UsersWithEmail(users, ToLowerCase(email)) # {},
                     !.hadAccount = AccountsWithEmail(accounts, email) # {}]
        IN  IF fsUser # None
            THEN /\ inv' = [inv EXCEPT ![p] =
                             [r EXCEPT !.pc = "getUserByEmail", !.fsUser = fsUser]]
                 /\ UNCHANGED clock
            ELSE LET c == User_new(EmptyId, email, clock)
                 IN  IF ~c.ok
                     THEN /\ inv' = [inv EXCEPT ![p] = Failed(r, c.error)]
                          /\ UNCHANGED clock
                     ELSE /\ nextUserId + PendingUserCreates <= in.users
                          /\ inv' = [inv EXCEPT ![p] =
                                      [r EXCEPT !.pc = "createUser",
                                                !.fsUser = Some(c.user)]]
                          /\ clock' = clock + 1
    /\ UNCHANGED <<users, accounts, tasks, nextUserId, nextTaskId>>

\* a variant that adds the document only when the address is not stored yet
FSUserRepository_create_ifAbsent(store, docId, user) ==
    IF UsersWithEmail(store, user.email) # {} THEN store
    ELSE (docId :> FSUserRepository_userObject(user)) @@ store

\* a variant that keeps one document per address: it removes the documents
\* that hold the address before it adds the new one
FSUserRepository_create_replace(store, docId, user) ==
    (docId :> FSUserRepository_userObject(user))
        @@ [i \in DOMAIN store \ UsersWithEmail(store, user.email) |-> store[i]]

\* userRepository.create(newUser): collection.add, then new User(docRef.id, ...)
FSUserRepository_create(store, docId, user) ==
    (docId :> FSUserRepository_userObject(user)) @@ store

CreateOrFindUser_create(p) ==
    /\ inv[p].pc = "createUser"
    /\ LET newUser == inv[p].fsUser[1]
           docId == nextUserId
           c == User_new(docId, newUser.email, newUser.createdAt)
       IN  /\ users' = FSUserRepository_create(users, docId, newUser)
           /\ nextUserId' = nextUserId + 1
           /\ inv' = [inv EXCEPT ![p] =
                       [@ EXCEPT !.pc = "getUserByEmail", !.fsUser = Some(c.user),
                                 !.created = TRUE, !.userCreates = @ + 1]]
    /\ UNCHANGED <<accounts, tasks, nextTaskId, clock>>

\* what auth.getUserByEmail(email) can answer: the account, the error
\* auth/user-not-found when there is none, or another error
auth_getUserByEmail(accts, email) ==
    {[uid |-> u, error |-> NoError] : u \in AccountsWithEmail(accts, email)}
        \cup (IF AccountsWithEmail(accts, email) = {}
              THEN {[uid |-> EmptyId, error |-> ErrAuthNotFound]} ELSE {})
        \cup {[uid |-> EmptyId, error |-> ErrAuth]}

\* a variant whose catch block creates the account on every error
CreateOrFindUser_catch_anyError(error) == "createUser_auth"

\* the catch block: auth.createUser on auth/user-not-found, else throw error
CreateOrFindUser_catch(error) ==
    IF error = ErrAuthNotFound THEN "createUser_auth" ELSE "throw"

\* the try block around auth.getUserByEmail(email), and its catch
CreateOrFindUser_getUserByEmail(p) ==
    /\ inv[p].pc = "getUserByEmail"
    /\ \E authUser \in auth_getUserByEmail(accounts, inv[p].email) :
        LET r == [inv[p] EXCEPT !.lookup = authUser.error]
        IN  IF authUser.error = NoError
            THEN inv' = [inv EXCEPT ![p] =
                          [r EXCEPT !.pc = "createCustomToken",
                                    !.authUserUid = authUser.uid]]
            ELSE IF CreateOrFindUser_catch(authUser.error) = "throw"
            THEN inv' = [inv EXCEPT ![p] = Failed(r, authUser.error)]
            ELSE inv' = [inv EXCEPT ![p] = [r EXCEPT !.pc = "createUser_auth"]]
    /\ UNCHANGED <<users, accounts, tasks, nextUserId, nextTaskId, clock>>

\* a variant that leaves the uid to the provider, which draws its own
CreateOrFindUser_newAuthUser_ownUid(fsUser) ==
    [uid |-> fsUser.id + MaxUsers, email |-> fsUser.email]

\* the properties handed to auth.createUser
CreateOrFindUser_newAuthUser(fsUser) ==
    [uid |-> fsUser.id, email |-> fsUser.email]

\* auth.createUser({uid: fsUser.id, email: fsUser.email})
CreateOrFindUser_createUser(p) ==
    /\ inv[p].pc = "createUser_auth"
    /\ LET new == CreateOrFindUser_newAuthUser(inv[p].fsUser[1])
           called == [inv[p] EXCEPT !.authCreates = @ + 1]
       IN  \/ /\ new.uid \notin DOMAIN accounts
              /\ AccountsWithEmail(accounts, new.email) = {}
              /\ accounts' = (new.uid :> ToLowerCase(new.email)) @@ accounts
              /\ inv' = [inv EXCEPT ![p] =
                          [called EXCEPT !.pc = "createCustomToken",
                                         !.authUserUid = new.uid]]
           \/ /\ \/ new.uid \in DOMAIN accounts
                 \/ AccountsWithEmail(accounts, new.email) # {}
              /\ inv' = [inv EXCEPT ![p] = Failed(called, ErrAuthExists)]
              /\ UNCHANGED accounts
           \/ /\ inv' = [inv EXCEPT ![p] = Failed(called, ErrAuth)]
              /\ UNCHANGED accounts
    /\ UNCHANGED <<users, tasks, nextUserId, nextTaskId, clock>>

\* auth.createCustomToken(authUserUid) and the return
CreateOrFindUser_createCustomToken(p) ==
    /\ inv[p].pc = "createCustomToken"
    /\ \/ inv' = [inv EXCEPT ![p] =
                   [@ EXCEPT !.pc = "done", !.tokens = @ + 1,
                             !.customToken = Some(inv[p].authUserUid)]]
       \/ inv' = [inv EXCEPT ![p] = Failed([@ EXCEPT !.tokens = @ + 1], ErrAuth)]
    /\ UNCHANGED <<users, accounts, tasks, nextUserId, nextTaskId, clock>>

(* ------------------------ FindUserByEmailUseCase ---------------------- *)
\* execute: userRepository.findByEmail(email), then user !== null
FindUserByEmail_execute(p, in) ==
    /\ Accepts(p, in)
    /\ \E email \in in.emails :
       \E user \in FSUserRepository_findByEmail(users, email) :
        inv' = [inv EXCEPT ![p] =
                 [Idle EXCEPT !.pc = "done", !.op = "exists", !.email = email,
                              !.exists = (user # None)]]
    /\ UNCHANGED <<users, accounts, tasks, nextUserId, nextTaskId, clock>>

(* -------------------------- CreateTaskUseCase ------------------------- *)
\* task creations on their way to taskRepository.create: past their user
\* check, or POST requests whose token is being verified
PendingCreates ==
    Cardinality({q \in Procs :
        \/ inv[q].pc = "create"
        \/ inv[q].pc = "verifyIdToken" /\ inv[q].route = "POST"})

\* execute(input) up to the await of taskRepository.create, for the request
\* held in req; input.description is an optional value
CreateTaskUseCase_execute(p, in, req, userId, title, description) ==
    LET userExists == FSUserRepository_findById(users, userId)
        r == [req EXCEPT !.op = "create", !.userId = userId,
                         !.title = IF in.record THEN Some(title) ELSE None,
                         !.description = IF in.record THEN description ELSE None]
    IN  IF userExists = None
        THEN /\ inv' = [inv EXCEPT ![p] = Failed(r, ErrNoUserForTask)]
             /\ UNCHANGED clock
        ELSE LET c == Task_new(EmptyId, title, description, FALSE, clock, userId)
             IN  IF ~c.ok
                 THEN /\ inv' = [inv EXCEPT ![p] = Failed(r, c.error)]
                      /\ UNCHANGED clock
                 ELSE /\ inv' = [inv EXCEPT ![p] =
                                  [r EXCEPT !.pc = "create", !.entity = Some(c.task)]]
                      /\ clock' = clock + 1

\* a Create-Task invocation arrives
CreateTask_findUser(p, in) ==
    /\ Accepts(p, in)
    /\ nextTaskId + PendingCreates <= in.tasks
    /\ \E userId \in CallerIds, title \in in.titles, description \in in.descriptions :
        CreateTaskUseCase_execute(p, in, Idle, userId, title, Some(description))
    /\ UNCHANGED <<users, accounts, tasks, nextUserId, nextTaskId>>

\* taskRepository.create(newTask): collection.add, then new Task(docRef.id, ...)
CreateTask_create(p) ==
    /\ inv[p].pc = "create"
    /\ LET task == inv[p].entity[1]
           docId == nextTaskId
           c == Task_new(docId, task.title, Some(task.description),
                         task.completed, task.createdAt, task.userId)
       IN  /\ tasks' = (docId :> FSTaskRepository_taskObject(task)) @@ tasks
           /\ nextTaskId' = nextTaskId + 1
           /\ IF ~c.ok
              THEN inv' = [inv EXCEPT ![p] =
                            Failed([@ EXCEPT !.writes = @ + 1], c.error)]
              ELSE inv' = [inv EXCEPT ![p] =
                            [@ EXCEPT !.pc = "done", !.entity = Some(c.task),
                                      !.writes = @ + 1]]
    /\ UNCHANGED <<users, accounts, nextUserId, clock>>

(* --------------------------- FindByUserkUseCase ----------------------- *)
\* where("userId", "==", userId)
TasksOf(store, userId) == {i \in DOMAIN store : store[i].userId = userId}

\* orderBy("createdAt", "asc"); Firestore breaks ties by document id
Earliest(store, ids) ==
    CHOOSE i \in ids : \A j \in ids :
        \/ store[i].createdAt < store[j].createdAt
        \/ store[i].createdAt = store[j].createdAt /\ i <= j

RECURSIVE OrderByCreatedAt(_, _)
OrderByCreatedAt(store, ids) ==
    IF ids = {} THEN <<>>
    ELSE LET i == Earliest(store, ids)
         IN  <<i>> \o OrderByCreatedAt(store, ids \ {i})

\* a variant without the try/catch around fromObject: one document that
\* cannot be reconstructed loses the whole result
RECURSIVE Reconstructed_abort(_, _)
Reconstructed_abort(store, docs) ==
    IF \E k \in 1..Len(docs) : Task_fromObject(Doc(store, docs[k])) = None
    THEN <<>>
    ELSE IF docs = <<>> THEN <<>>
    ELSE Task_fromObject(Doc(store, Head(docs)))
            \o Reconstructed_abort(store, Tail(docs))

\* .map(fromObject or null).filter(not null)
RECURSIVE Reconstructed(_, _)
Reconstructed(store, docs) ==
    IF docs = <<>> THEN <<>>
    ELSE LET t == Task_fromObject(Doc(store, Head(docs)))
         IN  t \o Reconstructed(store, Tail(docs))

FSTaskRepository_findByUserId(store, userId) ==
    Reconstructed(store, OrderByCreatedAt(store, TasksOf(store, userId)))

\* execute(userId) up to the await of taskRepository.findByUserId, for the
\* request held in req
FindByUserkUseCase_execute(p, req, userId) ==
    LET userExists == FSUserRepository_findById(users, userId)
        r == [req EXCEPT !.op = "list", !.userId = userId]
    IN  IF userExists = None
        THEN inv' = [inv EXCEPT ![p] = Failed(r, ErrUserNotFound)]
        ELSE inv' = [inv EXCEPT ![p] = [r EXCEPT !.pc = "list"]]

\* a List-By-Owner invocation arrives
FindByUser_findUser(p, in) ==
    /\ Accepts(p, in)
    /\ \E userId \in CallerIds :
        FindByUserkUseCase_execute(p, Idle, userId)
    /\ UNCHANGED <<users, accounts, tasks, nextUserId, nextTaskId, clock>>

\* taskRepository.findByUserId(userId) and the return
FindByUser_findByUserId(p) ==
    /\ inv[p].pc = "list"
    /\ inv' = [inv EXCEPT ![p] =
                [@ EXCEPT !.pc = "done",
                          !.list = FSTaskRepository_findByUserId(tasks, inv[p].userId)]]
    /\ UNCHANGED <<users, accounts, tasks, nextUserId, nextTaskId, clock>>

(* ------------------------- HTTP: /api/tasks --------------------------- *)
\* the four routes of the task router
Routes == {"POST", "GET", "PUT", "DELETE"}

\* ID tokens: a valid token of each caller (one of them an account with no
\* users document) and a token that fails verification
Tokens ==
    {[uid |-> u, valid |-> TRUE] : u \in CallerIds}
        \cup {[uid |-> 1, valid |-> FALSE]}

\* Authorization headers: none, or a scheme followed by a token
AuthHeaders ==
    {None} \cup {Some([scheme |-> h[1], token |-> h[2]]) :
                    h \in {"Basic", "Bearer"} \X Tokens}

\* !authHeader || !authHeader.startsWith("Bearer ")
verifyAuthToken_rejectsHeader(authHeader) ==
    authHeader = None \/ authHeader[1].scheme # "Bearer"

\* a variant that decodes the token without verifying it
auth_verifyIdToken_decodeOnly(token) == Some([uid |-> token.uid])

\* auth.verifyIdToken(idToken): the decoded token, or None when it rejects
auth_verifyIdToken(token) ==
    IF token.valid THEN Some([uid |-> token.uid]) ELSE None

\* verifyAuthToken up to the await of auth.verifyIdToken
verifyAuthToken(p, in) ==
    /\ Accepts(p, in)
    /\ \E route \in Routes, authHeader \in AuthHeaders :
        LET r == [Idle EXCEPT !.op = "http", !.route = route,
                              !.authorization = authHeader]
        IN  IF verifyAuthToken_rejectsHeader(authHeader)
            THEN inv' = [inv EXCEPT ![p] = [r EXCEPT !.pc = "done", !.status = 401]]
            ELSE /\ route = "POST" => nextTaskId + PendingCreates <= in.tasks
                 /\ inv' = [inv EXCEPT ![p] = [r EXCEPT !.pc = "verifyIdToken"]]
    /\ UNCHANGED <<users, accounts, tasks, nextUserId, nextTaskId, clock>>

\* createTaskSchema.body: title z.string().trim().min(1), description
\* z.string().trim().optional().default("")
createTaskSchema(title, description) ==
    [success |-> title # None /\ Trim(OrElse(title, EmptyStr)) # EmptyStr,
     data |-> [title |-> Trim(OrElse(title, EmptyStr)),
               description |-> Trim(OrElse(description, EmptyStr))]]

\* updateTaskSchema: params.taskId z.string().nonempty(), body.title
\* z.string().trim().min(1).optional(), description and completed optional
updateTaskSchema(taskId, title, description, completed) ==
    [success |-> /\ taskId # EmptyId
                 /\ title # None => Trim(title[1]) # EmptyStr,
     data |-> [taskId |-> taskId,
               title |-> IF title = None THEN None ELSE Some(Trim(title[1])),
               description |-> IF description = None THEN None
                               ELSE Some(Trim(description[1])),
               completed |-> completed]]

\* deleteTaskSchema: params.taskId z.string().nonempty()
deleteTaskSchema(taskId) == [success |-> taskId # EmptyId, data |-> [taskId |-> taskId]]

\* validate(schema): schema.parse(...) is run for its verdict only; the
\* parsed data is dropped and req.body / req.params stay as sent
validate(parsed) == IF parsed.success THEN 0 ELSE 400

\* a variant that reads the owner from the request when it names one
TaskController_userId_fromRequest(decodedToken, claimed) ==
    OrElse(claimed, decodedToken.uid)

\* const userId = res.locals.user.uid
TaskController_userId(decodedToken, claimed) == decodedToken.uid

\* the resumption after auth.verifyIdToken: 401, or res.locals.user and next()
verifyAuthToken_next(p) ==
    auth_verifyIdToken(inv[p].authorization[1].token)

Unauthorized401(p) ==
    inv' = [inv EXCEPT ![p] = [@ EXCEPT !.pc = "done", !.status = 401]]

BadRequest400(p) ==
    inv' = [inv EXCEPT ![p] = [@ EXCEPT !.pc = "done", !.status = 400]]

\* POST /: verifyAuthToken, validate(createTaskSchema), taskController.create
\* up to the first await of the use case
TaskRoutes_post(p, in) ==
    /\ inv[p].pc = "verifyIdToken" /\ inv[p].route = "POST"
    /\ LET decodedToken == verifyAuthToken_next(p)
       IN  IF decodedToken = None
           THEN Unauthorized401(p) /\ UNCHANGED clock
           ELSE \E title \in Opt(in.titles), description \in Opt(in.descriptions),
                   claimed \in Opt(CallerIds) :
                IF validate(createTaskSchema(title, description)) # 0
                THEN BadRequest400(p) /\ UNCHANGED clock
                ELSE CreateTaskUseCase_execute(p, in,
                        [inv[p] EXCEPT !.claimed = IF in.record THEN claimed ELSE None],
                        TaskController_userId(decodedToken[1], claimed),
                        title[1], description)
    /\ UNCHANGED <<users, accounts, tasks, nextUserId, nextTaskId>>

\* GET /: verifyAuthToken, validate(findTasksByUserSchema = z.object({})),
\* taskController.findByUser up to the first await of the use case
TaskRoutes_get(p, in) ==
    /\ inv[p].pc = "verifyIdToken" /\ inv[p].route = "GET"
    /\ LET decodedToken == verifyAuthToken_next(p)
       IN  IF decodedToken = None
           THEN Unauthorized401(p)
           ELSE \E claimed \in Opt(CallerIds) :
                FindByUserkUseCase_execute(p,
                    [inv[p] EXCEPT !.claimed = IF in.record THEN claimed ELSE None],
                    TaskController_userId(decodedToken[1], claimed))
    /\ UNCHANGED <<users, accounts, tasks, nextUserId, nextTaskId, clock>>

\* PUT /:taskId: verifyAuthToken, validate(updateTaskSchema),
\* taskController.update up to the first await of the use case
TaskRoutes_put(p, in) ==
    /\ inv[p].pc = "verifyIdToken" /\ inv[p].route = "PUT"
    /\ LET decodedToken == verifyAuthToken_next(p)
       IN  IF decodedToken = None
           THEN Unauthorized401(p)
           ELSE \E taskId \in TaskIdInputs,
                   title \in Opt(in.titles), description \in Opt(in.descriptions),
                   completed \in Opt(BOOLEAN), claimed \in Opt(CallerIds) :
                IF validate(updateTaskSchema(taskId, title, description, completed)) # 0
                THEN BadRequest400(p)
                ELSE UpdateTaskUseCase_execute(p, in,
                        [inv[p] EXCEPT !.claimed = IF in.record THEN claimed ELSE None],
                        taskId, TaskController_userId(decodedToken[1], claimed),
                        title, description, completed)
    /\ UNCHANGED <<users, accounts, tasks, nextUserId, nextTaskId, clock>>

\* DELETE /:taskId: verifyAuthToken, validate(deleteTaskSchema),
\* taskController.delete up to the first await of the use case
TaskRoutes_delete(p, in) ==
    /\ inv[p].pc = "verifyIdToken" /\ inv[p].route = "DELETE"
    /\ LET decodedToken == verifyAuthToken_next(p)
       IN  IF decodedToken = None
           THEN Unauthorized401(p)
           ELSE \E taskId \in TaskIdInputs, claimed \in Opt(CallerIds) :
                IF validate(deleteTaskSchema(taskId)) # 0
                THEN BadRequest400(p)
                ELSE DeleteTaskUseCase_execute(p,
                        [inv[p] EXCEPT !.claimed = IF in.record THEN claimed ELSE None],
                        taskId, TaskController_userId(decodedToken[1], claimed))
    /\ UNCHANGED <<users, accounts, tasks, nextUserId, nextTaskId, clock>>

\* the catch blocks of taskController.create / update / delete / findByUser
TaskController_create_status(error) ==
    IF error = NoError THEN 201
    ELSE IF error = ErrNoUserForTask THEN 404 ELSE 500

\* a variant of update's catch without the branch for the ownership error
TaskController_update_status_noForbidden(error) ==
    IF error = NoError THEN 200
    ELSE IF error = ErrTaskNotFound THEN 404 ELSE 500

TaskController_update_status(error) ==
    IF error = NoError THEN 200
    ELSE IF error = ErrTaskNotFound THEN 404
    ELSE IF error = ErrUnauthorized THEN 403 ELSE 500

TaskController_delete_status(error) ==
    IF error = NoError THEN 204
    ELSE IF error = ErrTaskNotFound THEN 404
    ELSE IF error = ErrUnauthorized THEN 403 ELSE 500

TaskController_findByUser_status(error) ==
    IF error = NoError THEN 200
    ELSE IF error = ErrUserNotFound THEN 404 ELSE 500

\* the status of the response to a request that has been answered: the one
\* a middleware sent, or the controller's for the use case's outcome
ResponseStatus(r) ==
    IF r.status # 0 THEN r.status
    ELSE CASE r.op = "create" -> TaskController_create_status(r.error)
           [] r.op = "update" -> TaskController_update_status(r.error)
           [] r.op = "delete" -> TaskController_delete_status(r.error)
           [] r.op = "list" -> TaskController_findByUser_status(r.error)

\* the body of a 2xx response: toObject() of the task(s), nothing for 204
ResponseBody(r) ==
    CASE r.op \in {"create", "update"} -> r.entity
      [] r.op = "list" -> r.list
      [] OTHER -> None

(* ------------------------------ responses ----------------------------- *)
\* the controller has answered; the slot takes the next request
Return(p) ==
    /\ inv[p].pc = "done"
    /\ inv' = [inv EXCEPT ![p] = Idle]
    /\ UNCHANGED <<users, accounts, tasks, nextUserId, nextTaskId, clock>>

(* ------------------- task use cases, users provisioned ---------------- *)
\* two users have signed in (ids 1 and 2, each with its account); no tasks
InitTasks ==
    /\ users = (1 :> [email |-> EmailA, createdAt |-> 1])
               @@ (2 :> [email |-> EmailB, createdAt |-> 1])
    /\ accounts = (1 :> EmailA) @@ (2 :> EmailB)
    /\ tasks = <<>>
    /\ nextUserId = 3
    /\ nextTaskId = 1
    /\ clock = 1
    /\ inv = [p \in Procs |-> Idle]

TaskStep(p, in) ==
    \/ CreateTask_findUser(p, in)
    \/ CreateTask_create(p)
    \/ UpdateTask_findById(p, in)
    \/ UpdateTask_update(p)
    \/ DeleteTask_findById(p, in)
    \/ DeleteTask_delete(p)
    \/ FindByUser_findUser(p, in)
    \/ FindByUser_findByUserId(p)
    \/ Return(p)

NextTasks == \E p \in Procs : TaskStep(p, FewInputs)

\* requests served one at a time
NextTasksSeq == \E p \in Procs : TaskStep(p, AllInputs)

SpecTasksSeq == InitTasks /\ [][NextTasksSeq]_vars

SpecTasks == InitTasks /\ [][NextTasks]_vars

\* concurrent requests whose optional fields the slot keeps for inspection:
\* one title, one of two descriptions
RaceInputs ==
    [titles |-> {<<"a">>}, descriptions |-> {<<>>, <<"a">>},
     tasks |-> MaxRaceTasks, record |-> TRUE,
     emails |-> {EmailA, EmailB}, users |-> MaxUsers,
     serial |-> FALSE]

NextTasksRace == \E p \in Procs : TaskStep(p, RaceInputs)

SpecTasksRace == InitTasks /\ [][NextTasksRace]_vars

(* ------------------------ sign-in, empty stores ----------------------- *)
InitUsers ==
    /\ users = <<>>
    /\ accounts = <<>>
    /\ tasks = <<>>
    /\ nextUserId = 1
    /\ nextTaskId = 1
    /\ clock = 1
    /\ inv = [p \in Procs |-> Idle]

UserStep(p, in) ==
    \/ CreateOrFindUser_findByEmail(p, in)
    \/ CreateOrFindUser_create(p)
    \/ CreateOrFindUser_getUserByEmail(p)
    \/ CreateOrFindUser_createUser(p)
    \/ CreateOrFindUser_createCustomToken(p)
    \/ FindUserByEmail_execute(p, in)
    \/ Return(p)

NextUsers == \E p \in Procs : UserStep(p, FewInputs)

SpecUsers == InitUsers /\ [][NextUsers]_vars

\* sign-ins served one at a time
NextUsersSeq == \E p \in Procs : UserStep(p, AllInputs)

SpecUsersSeq == InitUsers /\ [][NextUsersSeq]_vars

(* -------------------- /api/tasks, users provisioned ------------------- *)
\* requests to the task router carry a plain or a blank title, or none, and
\* one of two descriptions, or none; the slot keeps what the code keeps
\* across its awaits
HttpInputs ==
    [titles |-> {<<"a">>, <<" ">>}, descriptions |-> {<<>>, <<"a">>},
     tasks |-> MaxRaceTasks, record |-> FALSE,
     emails |-> {EmailA, EmailB}, users |-> MaxUsers,
     serial |-> FALSE]
\* requests served one at a time carry the same and also a padded title; the
\* slot keeps what the request carried for inspection
HttpSeqInputs ==
    [titles |-> {<<"a">>, <<" ">>, <<" ", "a">>}, descriptions |-> {<<>>, <<"a">>},
     tasks |-> MaxTasks, record |-> TRUE,
     emails |-> {EmailA, EmailB}, users |-> MaxUsers,
     serial |-> TRUE]

HttpStep(p, in) ==
    \/ verifyAuthToken(p, in)
    \/ TaskRoutes_post(p, in)
    \/ TaskRoutes_get(p, in)
    \/ TaskRoutes_put(p, in)
    \/ TaskRoutes_delete(p, in)
    \/ CreateTask_create(p)
    \/ UpdateTask_update(p)
    \/ DeleteTask_delete(p)
    \/ FindByUser_findByUserId(p)
    \/ Return(p)

NextHttp == \E p \in Procs : HttpStep(p, HttpInputs)

SpecHttp == InitTasks /\ [][NextHttp]_vars

\* requests to the task router served one at a time
NextHttpSeq == \E p \in Procs : HttpStep(p, HttpSeqInputs)

SpecHttpSeq == InitTasks /\ [][NextHttpSeq]_vars

(* ------------------------- the Task constructor ----------------------- *)
\* new Task(...) on its own: a caller constructs a Task from arguments of
\* its choice and keeps the Task or the error thrown
Task_constructor(p, in) ==
    /\ Accepts(p, in)
    /\ \E id \in {EmptyId} \cup TaskIdInputs, title \in in.titles,
          description \in Opt(in.descriptions), completed \in BOOLEAN,
          userId \in {EmptyId} \cup CallerIds :
        LET c == Task_new(id, title, description, completed, clock, userId)
        IN  inv' = [inv EXCEPT ![p] =
                     [Idle EXCEPT !.pc = "done", !.op = "construct",
                                  !.taskId = id, !.userId = userId,
                                  !.title = Some(title),
                                  !.description = description,
                                  !.completed = Some(completed),
                                  !.entity = IF c.ok THEN Some(c.task) ELSE None,
                                  !.error = c.error]]
    /\ UNCHANGED <<users, accounts, tasks, nextUserId, nextTaskId, clock>>

NextEntities ==
    \E p \in Procs : Task_constructor(p, AllInputs) \/ Return(p)

SpecEntities == InitUsers /\ [][NextEntities]_vars

(* --------------------- every use case, empty stores ------------------- *)
\* the six use cases behind the two routers, on stores that start empty
AppStep(p, in) ==
    \/ CreateOrFindUser_findByEmail(p, in)
    \/ CreateOrFindUser_create(p)
    \/ CreateOrFindUser_getUserByEmail(p)
    \/ CreateOrFindUser_createUser(p)
    \/ CreateOrFindUser_createCustomToken(p)
    \/ FindUserByEmail_execute(p, in)
    \/ CreateTask_findUser(p, in)
    \/ CreateTask_create(p)
    \/ UpdateTask_findById(p, in)
    \/ UpdateTask_update(p)
    \/ DeleteTask_findById(p, in)
    \/ DeleteTask_delete(p)
    \/ FindByUser_findUser(p, in)
    \/ FindByUser_findByUserId(p)
    \/ Return(p)

\* concurrent invocations: two spellings of one address, a plain or a blank
\* title, no description text
AppInputs ==
    [titles |-> {<<"a">>, <<" ">>}, descriptions |-> {<<>>},
     tasks |-> MaxRaceTasks, record |-> FALSE,
     emails |-> {EmailA, EmailMixedA}, users |-> MaxUsers,
     serial |-> FALSE]
\* invocations served one at a time: a second address and a second task
AppSeqInputs ==
    [titles |-> {<<"a">>, <<" ">>}, descriptions |-> {<<>>},
     tasks |-> MaxTasks, record |-> FALSE,
     emails |-> {EmailA, EmailMixedA, EmailB}, users |-> MaxUsers,
     serial |-> TRUE]

NextApp == \E p \in Procs : AppStep(p, AppInputs)

SpecApp == InitUsers /\ [][NextApp]_vars

\* invocations served one at a time
NextAppSeq == \E p \in Procs : AppStep(p, AppSeqInputs)

SpecAppSeq == InitUsers /\ [][NextAppSeq]_vars

(* ======================= properties of the use cases =================== *)
Done(p, op) == inv[p].pc = "done" /\ inv[p].op = op
Returned(p, op) == Done(p, op) /\ inv[p].error = NoError

\* C1: Update-Task and Delete-Task for a stored task whose userId differs
\* from the caller's end with "Accion no autorizada." and without a call of
\* the repository's update / delete.
C1_NonOwnerIsUnauthorized ==
    \A p \in Procs :
        (/\ Done(p, "update") \/ Done(p, "delete")
         /\ inv[p].taskId \in DOMAIN tasks
         /\ tasks[inv[p].taskId].userId # inv[p].userId)
        => inv[p].error = ErrUnauthorized /\ inv[p].writes = 0

\* C2: under any interleaving, a step that changes or removes a stored task
\* is a step of an invocation whose userId is that task's stored userId.
C2_OnlyOwnerChangesTask ==
    [][\A t \in DOMAIN tasks :
        (t \notin DOMAIN tasks' \/ tasks'[t] # tasks[t])
        => \E p \in Procs : inv'[p] # inv[p] /\ inv[p].userId = tasks[t].userId]_vars

\* a non-owner was turned away and the owner's update went through
C2_Witness ==
    \E p, q \in Procs :
        /\ Returned(p, "update") /\ inv[p].writes = 1
        /\ inv[p].taskId \in DOMAIN tasks
        /\ tasks[inv[p].taskId].userId = inv[p].userId
        /\ Done(q, "delete") /\ inv[q].taskId = inv[p].taskId
        /\ inv[q].userId # inv[p].userId
        /\ inv[q].error = ErrUnauthorized

\* C3: Update-Task and Delete-Task for a taskId with no stored task end with
\* "Tarea no encontrada.", whoever calls, without a call of update / delete.
C3_MissingTaskNotFound ==
    [][\A p \in Procs :
        (/\ inv[p].pc = "idle" /\ inv'[p].pc # "idle"
         /\ inv'[p].op \in {"update", "delete"}
         /\ inv'[p].taskId \notin DOMAIN tasks)
        => /\ inv'[p].pc = "done"
           /\ inv'[p].error = ErrTaskNotFound
           /\ inv'[p].writes = 0
           /\ tasks' = tasks]_vars

\* a caller who owns nothing asked to delete an id that is not stored
C3_Witness ==
    \E p \in Procs :
        /\ Done(p, "delete")
        /\ inv[p].taskId \notin DOMAIN tasks
        /\ inv[p].error = ErrTaskNotFound
        /\ inv[p].writes = 0
        /\ \A t \in DOMAIN tasks : tasks[t].userId # inv[p].userId

\* C4: a stored task keeps its userId and createdAt (its id is its key) in
\* every step; Update-Task changes at most title, description and completed.
C4_IdentityFieldsImmutable ==
    [][\A t \in DOMAIN tasks \cap DOMAIN tasks' :
        /\ tasks'[t].userId = tasks[t].userId
        /\ tasks'[t].createdAt = tasks[t].createdAt]_vars

\* an update has been written and changed the stored description
C4_Witness ==
    \E p \in Procs :
        /\ Returned(p, "update") /\ inv[p].writes = 1
        /\ inv[p].taskId \in DOMAIN tasks
        /\ tasks[inv[p].taskId].description # EmptyStr
        /\ tasks[inv[p].taskId].userId = inv[p].userId

\* C5 as claimed: after a successful Update-Task the returned and persisted
\* title, description and completed equal the input value where one was
\* given and the stored value where it was omitted.
C5_PartialUpdateVerbatim ==
    [][\A p \in Procs :
        (inv[p].pc = "update" /\ inv'[p].pc = "done" /\ inv'[p].error = NoError)
        => LET old == tasks[inv[p].taskId]
               new == tasks'[inv[p].taskId]
               ret == inv'[p].entity[1]
           IN  /\ ret.title = OrElse(inv[p].title, old.title)
               /\ ret.description = OrElse(inv[p].description, old.description)
               /\ ret.completed = OrElse(inv[p].completed, old.completed)
               /\ new.title = ret.title
               /\ new.description = ret.description
               /\ new.completed = ret.completed]_vars

\* C5 (amended): after a successful Update-Task the returned and persisted
\* title and description equal the trimmed input value where one was given,
\* completed equals the input value where one was given, and each equals the
\* stored value where it was omitted.
C5_PartialUpdateTrimmed ==
    [][\A p \in Procs :
        (inv[p].pc = "update" /\ inv'[p].pc = "done" /\ inv'[p].error = NoError)
        => LET old == tasks[inv[p].taskId]
               new == tasks'[inv[p].taskId]
               ret == inv'[p].entity[1]
           IN  /\ ret.title =
                    IF inv[p].title = None THEN old.title ELSE Trim(inv[p].title[1])
               /\ ret.description =
                    IF inv[p].description = None THEN old.description
                    ELSE Trim(inv[p].description[1])
               /\ ret.completed = OrElse(inv[p].completed, old.completed)
               /\ new.title = ret.title
               /\ new.description = ret.description
               /\ new.completed = ret.completed]_vars

\* an update that gave completed = false and description = "" and no title
\* has been written over a completed task with a description
C5_Witness ==
    \E p \in Procs :
        /\ Returned(p, "update") /\ inv[p].writes = 1
        /\ inv[p].title = None
        /\ inv[p].description = Some(EmptyStr)
        /\ inv[p].completed = Some(FALSE)
        /\ inv[p].taskId \in DOMAIN tasks
        /\ tasks[inv[p].taskId].title # EmptyStr
        /\ tasks[inv[p].taskId].description = EmptyStr
        /\ ~tasks[inv[p].taskId].completed
        /\ inv[p].entity[1].createdAt = 2

\* C6: no stored task and no returned task has an empty title.
C6_NoEmptyTitle ==
    /\ \A t \in DOMAIN tasks : tasks[t].title # EmptyStr
    /\ \A p \in Procs :
        (Returned(p, "create") \/ Returned(p, "update"))
        => inv[p].entity[1].title # EmptyStr

\* C7: with sign-ins served one at a time, the users collection holds at
\* most one document per stored e-mail address.
C7_OneUserPerEmail ==
    \A i, j \in DOMAIN users : users[i].email = users[j].email => i = j

\* C8: two sign-ins for one address that both found no User before either
\* created one have each added a document: once both have created, the
\* collection holds two documents with that address.
C8_RaceCreatesTwoUsers ==
    \A p, q \in Procs :
        (/\ p # q
         /\ inv[p].op = "signin" /\ inv[q].op = "signin"
         /\ inv[p].email = inv[q].email
         /\ inv[p].created /\ inv[q].created)
        => /\ inv[p].fsUser[1].id # inv[q].fsUser[1].id
           /\ {inv[p].fsUser[1].id, inv[q].fsUser[1].id}
                \subseteq UsersWithEmail(users, ToLowerCase(inv[p].email))

\* both sign-ins for one address have created their User document
C8_Witness ==
    \E p, q \in Procs :
        /\ p # q
        /\ inv[p].op = "signin" /\ inv[q].op = "signin"
        /\ inv[p].email = inv[q].email
        /\ inv[p].created /\ inv[q].created
        /\ Cardinality(UsersWithEmail(users, inv[p].email)) = 2

\* C9: a sign-in that returns, for an address with no stored User and no
\* account, reports created = true and has made exactly one User create, one
\* account creation (uid = the stored User's id, email = the User's email)
\* and one token.
C9_FreshSignIn ==
    \A p \in Procs :
        (Returned(p, "signin") /\ ~inv[p].hadUser /\ ~inv[p].hadAccount)
        => LET fsUser == inv[p].fsUser[1]
           IN  /\ inv[p].created
               /\ inv[p].userCreates = 1
               /\ inv[p].authCreates = 1
               /\ inv[p].tokens = 1
               /\ fsUser.id \in DOMAIN users
               /\ users[fsUser.id].email = fsUser.email
               /\ fsUser.id \in DOMAIN accounts
               /\ accounts[fsUser.id] = fsUser.email
               /\ inv[p].customToken = Some(fsUser.id)

\* a sign-in with a mixed-case spelling of a new address has returned
C9_Witness ==
    \E p \in Procs :
        /\ Returned(p, "signin") /\ ~inv[p].hadUser /\ ~inv[p].hadAccount
        /\ inv[p].email = EmailMixedA
        /\ inv[p].created

\* C10: a sign-in for an address that already has a stored User and an
\* account makes no User create and no account creation, and reports
\* created = false when it returns.
C10_KnownSignInCreatesNothing ==
    \A p \in Procs :
        (Done(p, "signin") /\ inv[p].hadUser /\ inv[p].hadAccount)
        => /\ inv[p].userCreates = 0
           /\ inv[p].authCreates = 0
           /\ (inv[p].error = NoError => ~inv[p].created)

\* C11: Create-Task and List-By-Owner for a userId with no stored User end
\* at once with their user-missing error, without a call of the Task
\* repository and with the tasks collection unchanged.
C11_MissingUserRejected ==
    [][\A p \in Procs :
        (/\ inv[p].pc = "idle" /\ inv'[p].pc # "idle"
         /\ inv'[p].op \in {"create", "list"}
         /\ inv'[p].userId \notin DOMAIN users)
        => /\ inv'[p].pc = "done"
           /\ inv'[p].error = IF inv'[p].op = "create"
                              THEN ErrNoUserForTask ELSE ErrUserNotFound
           /\ inv'[p].writes = 0
           /\ inv'[p].list = <<>>
           /\ tasks' = tasks
           /\ nextTaskId' = nextTaskId]_vars

\* a create and a list for an id with no User have both been turned away
\* while a task of another user is stored
C11_Witness ==
    \E p, q \in Procs :
        /\ Done(p, "create") /\ inv[p].userId \notin DOMAIN users
        /\ inv[p].error = ErrNoUserForTask /\ inv[p].writes = 0
        /\ Done(q, "list") /\ inv[q].userId \notin DOMAIN users
        /\ inv[q].error = ErrUserNotFound
        /\ tasks # <<>>

\* C12: Create-Task for a stored user with a title that is not blank calls
\* the repository's create once and returns a task with completed = false,
\* the caller's userId and a fresh non-empty id; that task is the one
\* document added, and every other document is as before.
C12_CreateAddsOneTask ==
    [][\A p \in Procs :
        /\ (/\ inv[p].pc = "idle" /\ inv'[p].op = "create"
            /\ inv'[p].userId \in DOMAIN users
            /\ Trim(inv'[p].title[1]) # EmptyStr)
           => inv'[p].pc = "create" /\ inv'[p].writes = 0 /\ tasks' = tasks
        /\ (/\ inv[p].pc = "create" /\ inv'[p].pc = "done"
            /\ Trim(inv[p].title[1]) # EmptyStr)
           => LET ret == inv'[p].entity[1]
              IN  /\ inv'[p].error = NoError
                  /\ inv'[p].writes = 1
                  /\ ret.id # EmptyId
                  /\ ret.id \notin DOMAIN tasks
                  /\ ~ret.completed
                  /\ ret.userId = inv[p].userId
                  /\ ret.title = Trim(inv[p].title[1])
                  /\ DOMAIN tasks' = DOMAIN tasks \cup {ret.id}
                  /\ \A t \in DOMAIN tasks : tasks'[t] = tasks[t]
                  /\ Doc(tasks', ret.id) = ret]_vars

\* a second task, with a padded title, has been created and returned
C12_Witness ==
    \E p \in Procs :
        /\ Returned(p, "create") /\ inv[p].writes = 1
        /\ inv[p].title = Some(<<" ", "a">>)
        /\ Cardinality(DOMAIN tasks) = 2
        /\ inv[p].entity[1].id \in DOMAIN tasks

\* C13: List-By-Owner for a stored user returns exactly the stored tasks
\* whose userId is the caller's, in ascending createdAt order (the empty
\* sequence when there are none), and never a task of another user.
C13_ListIsOwnersTasksInOrder ==
    \A p \in Procs :
        Returned(p, "list")
        => LET list == inv[p].list
           IN  /\ {list[i].id : i \in 1..Len(list)} = TasksOf(tasks, inv[p].userId)
               /\ Len(list) = Cardinality(TasksOf(tasks, inv[p].userId))
               /\ \A i \in 1..Len(list) :
                    /\ list[i].userId = inv[p].userId
                    /\ list[i] = Doc(tasks, list[i].id)
               /\ \A i, j \in 1..Len(list) :
                    i < j => list[i].createdAt <= list[j].createdAt

\* C14: Delete-Task by the owner of a stored task calls the repository's
\* delete once for that id; the document is then gone and every other
\* document is as before; ids are never assigned again, so the document
\* stays gone, and every later Update-Task or Delete-Task for that id ends
\* with "Tarea no encontrada.".
C14_DeleteRemovesForGood ==
    [][/\ \A p \in Procs :
            /\ (/\ inv[p].pc = "idle" /\ inv'[p].op = "delete"
                /\ inv'[p].taskId \in DOMAIN tasks
                /\ tasks[inv'[p].taskId].userId = inv'[p].userId)
               => inv'[p].pc = "delete" /\ inv'[p].writes = 0
            /\ (inv[p].pc = "delete" /\ inv'[p].pc # "delete")
               => /\ inv'[p].pc = "done" /\ inv'[p].error = NoError
                  /\ inv'[p].writes = 1
                  /\ DOMAIN tasks' = DOMAIN tasks \ {inv[p].taskId}
                  /\ \A t \in DOMAIN tasks' : tasks'[t] = tasks[t]
            /\ (/\ inv[p].pc = "idle" /\ inv'[p].op \in {"update", "delete"}
                /\ inv'[p].taskId < nextTaskId
                /\ inv'[p].taskId \notin DOMAIN tasks)
               => /\ inv'[p].pc = "done"
                  /\ inv'[p].error = ErrTaskNotFound
                  /\ tasks' = tasks
       /\ \A t \in 1..(nextTaskId - 1) :
            t \notin DOMAIN tasks => t \notin DOMAIN tasks'
      ]_vars

\* C15: the existence check answers true exactly when the users collection
\* holds a record for the address asked about, whatever the spelling of the
\* address, and changes neither the users collection nor the accounts.
C15_ExistsIffStored ==
    [][\A p \in Procs :
        (inv[p].pc = "idle" /\ inv'[p].op = "exists")
        => /\ inv'[p].pc = "done" /\ inv'[p].error = NoError
           /\ inv'[p].exists
                = (UsersWithEmail(users, ToLowerCase(inv'[p].email)) # {})
           /\ users' = users
           /\ accounts' = accounts]_vars

(* ====================== properties of the HTTP layer =================== *)
\* the request in slot p came through the task router and has been answered
Answered(p) == inv[p].pc = "done" /\ inv[p].route # "none"

\* C16: an authenticated POST /api/tasks with a valid title and no
\* description, from a caller whose User is stored, is answered 201 with a
\* task whose description is "", completed is false, userId is the caller's
\* and id is not empty.
C16_PostWithoutDescriptionCreated ==
    \A p \in Procs :
        (/\ Answered(p) /\ inv[p].route = "POST" /\ inv[p].op = "create"
         /\ inv[p].description = None
         /\ inv[p].userId \in DOMAIN users)
        => /\ ResponseStatus(inv[p]) = 201
           /\ ResponseBody(inv[p]) # None
           /\ ResponseBody(inv[p])[1].description = EmptyStr
           /\ ~ResponseBody(inv[p])[1].completed
           /\ ResponseBody(inv[p])[1].userId = inv[p].authorization[1].token.uid
           /\ ResponseBody(inv[p])[1].id # EmptyId

\* C17: a request whose use case failed because the entity constructor
\* rejected a field (e-mail, title, userId, description) is answered 400.
C17_ValidationFailureIs400 ==
    \A p \in Procs :
        (/\ Answered(p)
         /\ inv[p].error \in {ErrTitle, ErrUserId, ErrDescription, ErrEmail})
        => ResponseStatus(inv[p]) = 400

\* C18: the answer to a PUT or DELETE /api/tasks/:taskId that reached its
\* use case follows the use case's outcome: "Tarea no encontrada." gives 404,
\* "Accion no autorizada." gives 403, any other failure gives 500, success
\* gives 200 with the stored task (PUT) or 204 with no body (DELETE).
C18_StatusFollowsOutcome ==
    \A p \in Procs :
        (Answered(p) /\ inv[p].op \in {"update", "delete"})
        => LET r == inv[p]
               status == ResponseStatus(r)
           IN  /\ r.route = IF r.op = "update" THEN "PUT" ELSE "DELETE"
               /\ r.error = ErrTaskNotFound => status = 404
               /\ r.error = ErrUnauthorized => status = 403
               /\ r.error \notin {NoError, ErrTaskNotFound, ErrUnauthorized}
                    => status = 500
               /\ (r.error = NoError /\ r.op = "update")
                    => /\ status = 200
                       /\ ResponseBody(r) = r.entity /\ r.entity # None
                       /\ r.entity[1].id = r.taskId
                       /\ r.entity[1].userId = r.authorization[1].token.uid
               /\ (r.error = NoError /\ r.op = "delete")
                    => status = 204 /\ ResponseBody(r) = None

\* an owner's PUT, overtaken by the owner's DELETE of the same task, was
\* answered 500 and the DELETE 204
C18_Witness ==
    \E p, q \in Procs :
        /\ Answered(p) /\ inv[p].op = "update"
        /\ inv[p].error = ErrStoreNotFound /\ ResponseStatus(inv[p]) = 500
        /\ Answered(q) /\ inv[q].op = "delete"
        /\ inv[q].error = NoError /\ ResponseStatus(inv[q]) = 204
        /\ inv[q].taskId = inv[p].taskId

\* a request to the task router whose Authorization header is missing or
\* not a Bearer header, or whose token fails verification
BadCredentials(r) ==
    \/ verifyAuthToken_rejectsHeader(r.authorization)
    \/ ~r.authorization[1].token.valid

\* C19: a request to any /api/tasks route without an Authorization header
\* of the form "Bearer <token>", or with a token that fails verification,
\* is answered 401; no schema validation, controller or use case runs for
\* it and no step of it changes stored state.
C19_BadCredentialsAnswered401 ==
    [][\A p \in Procs :
        (/\ inv'[p] # inv[p] /\ inv'[p].route # "none"
         /\ BadCredentials(inv'[p]))
        => /\ inv'[p].pc \in {"verifyIdToken", "done"}
           /\ inv'[p].op = "http"
           /\ inv'[p].pc = "done" => ResponseStatus(inv'[p]) = 401
           /\ inv'[p].pc = "verifyIdToken"
                => ~verifyAuthToken_rejectsHeader(inv'[p].authorization)
           /\ inv'[p].writes = 0
           /\ <<users, accounts, tasks, nextUserId, nextTaskId, clock>>'
                = <<users, accounts, tasks, nextUserId, nextTaskId, clock>>]_vars

\* with a task stored, a DELETE without header and a PUT whose token failed
\* verification have both been answered 401
C19_Witness ==
    \E p, q \in Procs :
        /\ Answered(p) /\ inv[p].route = "DELETE"
        /\ inv[p].authorization = None /\ ResponseStatus(inv[p]) = 401
        /\ Answered(q) /\ inv[q].route = "PUT"
        /\ inv[q].authorization # None
        /\ inv[q].authorization[1].scheme = "Bearer"
        /\ ~inv[q].authorization[1].token.valid
        /\ ResponseStatus(inv[q]) = 401
        /\ tasks # <<>>

\* C20: the userId a task use case receives from the HTTP layer is the uid
\* of the verified token, whatever userId the request itself names; a task
\* added through POST /api/tasks is owned by the token's uid.
C20_UserIdIsTokenUid ==
    [][\A p \in Procs :
        (/\ inv'[p].route # "none"
         /\ inv'[p].op \in {"create", "update", "delete", "list"})
        => /\ ~BadCredentials(inv'[p])
           /\ inv'[p].userId = inv'[p].authorization[1].token.uid
           /\ (inv[p].pc = "create" /\ inv'[p].pc # "create")
                => /\ DOMAIN tasks' = DOMAIN tasks \cup {nextTaskId}
                   /\ tasks'[nextTaskId].userId
                        = inv[p].authorization[1].token.uid]_vars

\* a POST that named another user's id in its body has been answered 201
\* and the task added is owned by the token's uid
C20_Witness ==
    \E p \in Procs :
        /\ Answered(p) /\ inv[p].op = "create" /\ inv[p].error = NoError
        /\ ResponseStatus(inv[p]) = 201
        /\ inv[p].claimed # None
        /\ inv[p].claimed[1] # inv[p].authorization[1].token.uid
        /\ inv[p].claimed[1] \in DOMAIN users
        /\ inv[p].entity[1].id \in DOMAIN tasks
        /\ tasks[inv[p].entity[1].id].userId = inv[p].authorization[1].token.uid

(* ================== properties across the use cases ==================== *)
\* slot p makes a repository or identity-provider call in this step: a read
\* (findById, findByEmail, findByUserId, auth.getUserByEmail) or a write
\* (create, update, delete, auth.createUser)
ReadStep(p) ==
    inv'[p] # inv[p] /\ inv[p].pc \in {"idle", "getUserByEmail", "list"}
WriteStep(p) ==
    /\ inv'[p] # inv[p]
    /\ inv[p].pc \in {"create", "update", "delete", "createUser", "createUser_auth"}
\* the write calls the invocation in slot p has made so far
Written(p) == inv[p].writes + inv[p].userCreates + inv[p].authCreates

\* C21 (as claimed): in every use-case invocation no read and no write
\* follows a write: all reads come before any write, and at most one write
\* (repository create/update/delete or account creation) is made.
C21_ReadsThenOneWrite ==
    [][\A p \in Procs :
        (ReadStep(p) \/ WriteStep(p)) => Written(p) = 0]_vars

\* C21 (amended): in the four task use cases and the existence check no read
\* and no write follows a write; a sign-in makes at most one User create and
\* then at most one account creation, and the only call between the two is
\* the provider's lookup by email.
C21_ReadsThenWrites ==
    [][\A p \in Procs :
        /\ (ReadStep(p) /\ Written(p) > 0)
           => /\ inv[p].op = "signin" /\ inv[p].pc = "getUserByEmail"
              /\ inv[p].userCreates = 1 /\ inv[p].authCreates = 0
        /\ (WriteStep(p) /\ Written(p) > 0)
           => /\ inv[p].op = "signin" /\ inv[p].pc = "createUser_auth"
              /\ inv[p].userCreates = 1 /\ inv[p].authCreates = 0
              /\ inv[p].writes = 0]_vars

\* a sign-in has returned after a User create, the lookup and an account
\* creation, while a task creation has returned after its one write
C21_Witness ==
    \E p, q \in Procs :
        /\ Returned(p, "signin")
        /\ inv[p].userCreates = 1 /\ inv[p].authCreates = 1
        /\ inv[p].lookup = ErrAuthNotFound
        /\ Returned(q, "create") /\ inv[q].writes = 1

\* C22: no step changes or removes a stored User record; the users store
\* changes only by gaining one record, and only in the User create of a
\* sign-in.
C22_UsersOnlyGrowBySignIn ==
    [][/\ \A u \in DOMAIN users : u \in DOMAIN users' /\ users'[u] = users[u]
       /\ users' # users
          => /\ Cardinality(DOMAIN users') = Cardinality(DOMAIN users) + 1
             /\ \E p \in Procs :
                 /\ inv[p].op = "signin" /\ inv[p].pc = "createUser"
                 /\ inv'[p].userCreates = inv[p].userCreates + 1]_vars

\* two User records are stored, a sign-in for a stored address has returned
\* and a task has been created and deleted
C22_Witness ==
    /\ Cardinality(DOMAIN users) = 2
    /\ nextTaskId > 1 /\ tasks = <<>>
    /\ \E p \in Procs :
        Returned(p, "signin") /\ inv[p].hadUser /\ ~inv[p].created

\* C23: when the provider's lookup by email fails with an error other than
\* auth/user-not-found, the sign-in fails with that same error, has made no
\* account creation and has issued no token.
C23_LookupFailurePropagates ==
    \A p \in Procs :
        (inv[p].op = "signin" /\ inv[p].lookup \notin {NoError, ErrAuthNotFound})
        => /\ inv[p].pc = "done"
           /\ inv[p].error = inv[p].lookup
           /\ inv[p].authCreates = 0
           /\ inv[p].tokens = 0
           /\ inv[p].customToken = None

\* the lookup has failed for an address that has no account, in a sign-in
\* that had just created the User record
C23_Witness ==
    \E p \in Procs :
        /\ Done(p, "signin") /\ inv[p].lookup = ErrAuth
        /\ inv[p].userCreates = 1
        /\ AccountsWithEmail(accounts, inv[p].email) = {}

\* C24: List-By-Owner for a stored user does not fail when some of the
\* user's stored documents cannot be reconstructed (an empty id, title or
\* userId, or no createdAt): it returns exactly the user's other documents,
\* each as stored, in ascending createdAt order.
C24_CorruptRecordsSkipped ==
    \A p \in Procs :
        (Done(p, "list") /\ inv[p].userId \in DOMAIN users)
        => LET list == inv[p].list
               sound == {i \in TasksOf(tasks, inv[p].userId) :
                            /\ i # EmptyId
                            /\ tasks[i].title # EmptyStr
                            /\ tasks[i].userId # EmptyId
                            /\ tasks[i].createdAt # NoDate}
           IN  /\ inv[p].error = NoError
               /\ {list[i].id : i \in 1..Len(list)} = sound
               /\ Len(list) = Cardinality(sound)
               /\ \A i \in 1..Len(list) : list[i] = Doc(tasks, list[i].id)
               /\ \A i, j \in 1..Len(list) :
                    i < j => list[i].createdAt <= list[j].createdAt

\* a list has been returned for a user who has a document with an empty
\* title, stored before a document that can be reconstructed
C24_Witness ==
    \E p \in Procs :
        /\ Returned(p, "list")
        /\ Len(inv[p].list) = 1
        /\ \E i \in TasksOf(tasks, inv[p].userId) :
            /\ tasks[i].title = EmptyStr
            /\ tasks[i].createdAt <= inv[p].list[1].createdAt

\* C25: constructing a Task from a title with at least one character that
\* is not white space, a non-empty userId and a description string succeeds,
\* and the Task holds the trimmed title and the trimmed description.
C25_ConstructorTrims ==
    \A p \in Procs :
        (/\ Done(p, "construct")
         /\ \E i \in 1..Len(inv[p].title[1]) : ~IsSpace(inv[p].title[1][i])
         /\ inv[p].userId # EmptyId
         /\ inv[p].description # None)
        => /\ inv[p].error = NoError
           /\ inv[p].entity # None
           /\ inv[p].entity[1].title = Trim(inv[p].title[1])
           /\ inv[p].entity[1].description = Trim(inv[p].description[1])
           /\ inv[p].entity[1].userId = inv[p].userId

\* a Task has been constructed from a padded title and a blank description
C25_Witness ==
    \E p \in Procs :
        /\ Returned(p, "construct")
        /\ inv[p].title = Some(<<" ", "a">>)
        /\ inv[p].description = Some(<<" ">>)
        /\ inv[p].entity[1].title = <<"a">>
        /\ inv[p].entity[1].description = EmptyStr

\* the three fields Update-Task writes
Written3(t) == <<t.title, t.description, t.completed>>

\* C26: when two Update-Task invocations on the same task have both
\* returned, the stored title, description and completed are all those built
\* by one of them, the one that wrote last, never a mix of the two; a field
\* only the other invocation supplied does not keep that invocation's value.
C26_LastWriteWins ==
    \A p, q \in Procs :
        (/\ p # q
         /\ Returned(p, "update") /\ Returned(q, "update")
         /\ inv[p].taskId = inv[q].taskId
         /\ inv[p].taskId \in DOMAIN tasks)
        => LET stored == tasks[inv[p].taskId]
               mine == inv[p].entity[1]
               other == inv[q].entity[1]
           IN  /\ Written3(stored) \in {Written3(mine), Written3(other)}
               /\ (Written3(stored) = Written3(other)
                   /\ Written3(stored) # Written3(mine))
                  => /\ (inv[q].completed = None /\ inv[p].completed # None
                         /\ mine.completed # other.completed)
                        => stored.completed # mine.completed
                     /\ (inv[q].description = None /\ inv[p].description # None
                         /\ mine.description # other.description)
                        => stored.description # mine.description
                     /\ (inv[q].title = None /\ inv[p].title # None
                         /\ mine.title # other.title)
                        => stored.title # mine.title

\* both owners' updates read the task as created; the first set completed,
\* the second only the description, and the stored task is not completed
C26_Witness ==
    \E p, q \in Procs :
        /\ p # q
        /\ Returned(p, "update") /\ Returned(q, "update")
        /\ inv[p].taskId = inv[q].taskId
        /\ inv[p].taskId \in DOMAIN tasks
        /\ inv[p].userId = tasks[inv[p].taskId].userId
        /\ inv[q].userId = inv[p].userId
        /\ inv[p].completed = Some(TRUE) /\ inv[p].description = None
        /\ inv[q].completed = None /\ inv[q].description = Some(<<"a">>)
        /\ inv[p].entity[1].description = EmptyStr
        /\ inv[q].entity[1].completed = FALSE
        /\ tasks[inv[p].taskId].completed = FALSE
        /\ tasks[inv[p].taskId].description = <<"a">>

\* C27: a task id that was assigned and is no longer stored never comes
\* back; an Update-Task that read the task before it was deleted writes
\* nothing when it resumes and ends in failure.
C27_NoResurrection ==
    [][/\ \A t \in 1..(nextTaskId - 1) :
            t \notin DOMAIN tasks => t \notin DOMAIN tasks'
       /\ \A p \in Procs :
            (/\ inv[p].pc = "update" /\ inv'[p] # inv[p]
             /\ inv[p].taskId \notin DOMAIN tasks)
            => /\ inv'[p].pc = "done"
               /\ inv'[p].error # NoError
               /\ tasks' = tasks]_vars

\* a delete has removed the task an update had read, and the update has
\* ended with the store's rejection
C27_Witness ==
    \E p, q \in Procs :
        /\ Returned(q, "delete")
        /\ Done(p, "update") /\ inv[p].error = ErrStoreNotFound
        /\ inv[p].taskId = inv[q].taskId
        /\ inv[p].entity # None
        /\ inv[p].taskId \notin DOMAIN tasks

\* C28: a sign-in that created a User record and then failed leaves the
\* record stored; a sign-in that returns for an address that had a stored
\* User but no account when it started (the state such a failure leaves)
\* reports created = false.
C28_NoRollbackThenFound ==
    \A p \in Procs :
        /\ (Done(p, "signin") /\ inv[p].error # NoError /\ inv[p].userCreates = 1)
           => /\ inv[p].fsUser[1].id \in DOMAIN users
              /\ users[inv[p].fsUser[1].id]
                    = FSUserRepository_userObject(inv[p].fsUser[1])
        /\ (Returned(p, "signin") /\ inv[p].hadUser /\ ~inv[p].hadAccount)
           => ~inv[p].created

\* C29: with invocations served one at a time from empty stores, every
\* token a sign-in returns is issued for the uid of an account whose uid is
\* the id of a stored User with the same email, the address signed in with
\* in lower case; Create-Task and List-By-Owner for the uid of an account
\* never end with their user-missing error.
C29_IdentityAligned ==
    /\ \A p \in Procs :
        Returned(p, "signin")
        => LET uid == inv[p].customToken[1]
           IN  /\ uid \in DOMAIN accounts /\ uid \in DOMAIN users
               /\ accounts[uid] = ToLowerCase(inv[p].email)
               /\ users[uid].email = accounts[uid]
               /\ FSUserRepository_findById(users, uid) # None
    /\ \A q \in Procs :
        (/\ Done(q, "create") \/ Done(q, "list")
         /\ inv[q].userId \in DOMAIN accounts)
        => inv[q].error \notin {ErrNoUserForTask, ErrUserNotFound}

\* a sign-in with the second spelling of an address has returned the token
\* of the uid that already owns a stored task
C29_Witness ==
    \E p \in Procs :
        /\ Returned(p, "signin")
        /\ inv[p].email = EmailMixedA
        /\ \E t \in DOMAIN tasks : tasks[t].userId = inv[p].customToken[1]

\* C30: the userId of every stored task is the id of a stored User record.
C30_TasksHaveStoredOwner ==
    \A t \in DOMAIN tasks :
        /\ tasks[t].userId \in DOMAIN users
        /\ FSUserRepository_findById(users, tasks[t].userId) # None

\* a task is stored for a user who signed in, next to a second User record,
\* after an update of the task has returned
C30_Witness ==
    /\ tasks # <<>>
    /\ Cardinality(DOMAIN users) = 2
    /\ \E p \in Procs : Returned(p, "update") /\ inv[p].taskId \in DOMAIN tasks

=============================================================================
